---- MODULE Spec2Model ----
(***************************************************************************)
(* A model of pyscriptjs/src/pyexec.ts (pyExec, displayPyException) and of *)
(* pyscriptjs/src/pyconfig.ts (loadConfigFromElement, mergeConfig,         *)
(* validateConfig, parseConfig).                                           *)
(*                                                                         *)
(* JavaScript values are records whose single field names the type, so    *)
(* that values of different types are never equal:                         *)
(*   [string |-> s]  [number |-> n]  [boolean |-> b]  [array |-> seq]      *)
(*   [null |-> TRUE] [undefined |-> TRUE] [error |-> name, message |-> m]  *)
(*   [runtime |-> obj] [metadata |-> rec] [function |-> name]              *)
(* An object is a total function over its possible keys; a key the object *)
(* does not have as an own property maps to Absent (which differs from a   *)
(* key that is present and holds undefined).                              *)
(***************************************************************************)
EXTENDS Integers, Sequences, FiniteSets, TLC

VARIABLES
    \* ---- pyexec.ts -------------------------------------------------------
    target,       \* the interpreter's single current display target
    elemId,       \* element -> its id attribute ("" when it has none)
    idCounter,    \* the counter ensureUniqueId draws internal ids from
    pc,           \* invocation -> position of that pyExec invocation
    outElem,      \* invocation -> the element it was called with
    settled,      \* invocation -> how the promise of runtime.run settled
    children,     \* element -> the child nodes appended to it
    \* ---- pyconfig.ts -----------------------------------------------------
    heap,         \* reference -> object: defaultConfig and the live results
    now,          \* the clock new Date() reads
    cfgpc,        \* "ready" | "loaded": position of the host page
    call,         \* the record of the last loadConfigFromElement call
    kept          \* results of earlier calls the host still holds

execVars == <<target, elemId, idCounter, pc, outElem, settled, children>>
cfgVars == <<heap, now, cfgpc, call, kept>>
vars == <<target, elemId, idCounter, pc, outElem, settled, children,
          heap, now, cfgpc, call, kept>>

-----------------------------------------------------------------------------
(* JavaScript values *)

Absent == [absent |-> TRUE]
Undefined == [undefined |-> TRUE]
Null == [null |-> TRUE]
Str(s) == [string |-> s]
Num(n) == [number |-> n]
Bool(b) == [boolean |-> b]
Arr(s) == [array |-> s]

IsString(v) == "string" \in DOMAIN v
IsNumber(v) == "number" \in DOMAIN v
IsBoolean(v) == "boolean" \in DOMAIN v
IsArray(v) == "array" \in DOMAIN v

\* typeof v
TypeOf(v) ==
    IF IsString(v) THEN "string"
    ELSE IF IsNumber(v) THEN "number"
    ELSE IF IsBoolean(v) THEN "boolean"
    ELSE IF v = Undefined THEN "undefined"
    ELSE IF "function" \in DOMAIN v THEN "function"
    ELSE "object"

\* ToBoolean(v), as the || operator applies it
Truthy(v) ==
    IF IsString(v) THEN v.string # ""
    ELSE IF IsNumber(v) THEN v.number # 0
    ELSE IF IsBoolean(v) THEN v.boolean
    ELSE IF v = Undefined \/ v = Null THEN FALSE
    ELSE TRUE

\* a || b
Or(a, b) == IF Truthy(a) THEN a ELSE b

-----------------------------------------------------------------------------
(* pyexec.ts *)

Invocations == {1, 2}
Elements == {"e1", "e2"}
MaxErrors == 2

NoElem == "none"

PythonError == [error |-> "PythonError", message |-> "Traceback ...\nZeroDivisionError"]
JsError == [error |-> "TypeError", message |-> "x is not a function"]

\* The values runtime.run can reject with.
RunFailures == {PythonError, JsError, Str("oops"), Null, Undefined}

IsErrorObject(v) == "error" \in DOMAIN v

\* err.name: reading a property of null or undefined throws a TypeError.
NameThrows(err) == err = Null \/ err = Undefined
NameOf(err) == IF IsErrorObject(err) THEN Str(err.error) ELSE Undefined

\* String(err), the conversion `pre.innerText = err` applies
ToStr(err) ==
    IF IsString(err) THEN err.string
    ELSE IF IsErrorObject(err) THEN err.error \o ": " \o err.message
    ELSE IF err = Null THEN "null"
    ELSE "undefined"

Pre(text) == [tag |-> "pre", className |-> "py-error", innerText |-> text]

\* displayPyException(err, errElem), on the child list of errElem:
\* the new child list, and whether the function threw.
displayPyException(err, kids) ==
    IF NameThrows(err) THEN [threw |-> TRUE, kids |-> kids]
    ELSE IF NameOf(err) = Str("PythonError")
         THEN [threw |-> FALSE, kids |-> Append(kids, Pre(err.message))]
         ELSE [threw |-> FALSE, kids |-> Append(kids, Pre(ToStr(err)))]

\* ensureUniqueId(el): an element without an id gets an internal one.
NeedsId(e) == elemId[e] = ""
InternalId(n) == "py-internal-" \o ToString(n)
ensureUniqueId(e) ==
    IF NeedsId(e)
    THEN /\ elemId' = [elemId EXCEPT ![e] = InternalId(idCounter)]
         /\ idCounter' = idCounter + 1
    ELSE UNCHANGED <<elemId, idCounter>>

InFlight(i) == pc[i] = "awaiting"

CanStartLocked(i) == ~InFlight(i) /\ target = Undefined
\* pyExec can be entered whenever its caller is not suspended in it: nothing
\* in pyExec waits for, or looks at, the current display target.
CanStart(i) == ~InFlight(i)

TargetAfterRunNoFinally(thrown) == IF thrown THEN target ELSE Undefined
\* finally { set_current_display_target(undefined) }
TargetAfterRun(thrown) == Undefined

\* pyExec up to its await: ensureUniqueId, set_current_display_target(id),
\* and the call of runtime.run.
pyExecStart(i, e) ==
    /\ CanStart(i)
    /\ ensureUniqueId(e)
    /\ target' = Str(elemId'[e])
    /\ outElem' = [outElem EXCEPT ![i] = e]
    /\ settled' = [settled EXCEPT ![i] = [status |-> "pending"]]
    /\ pc' = [pc EXCEPT ![i] = "awaiting"]
    /\ UNCHANGED children

\* runtime.run(pysrc) completes normally.
RunFulfils(i) ==
    /\ InFlight(i)
    /\ settled[i].status = "pending"
    /\ settled' = [settled EXCEPT ![i] = [status |-> "fulfilled"]]
    /\ UNCHANGED <<target, elemId, idCounter, pc, outElem, children>>

TotalErrors == Len(children["e1"]) + Len(children["e2"])

\* runtime.run(pysrc) fails with err.
RunRejects(i, err) ==
    /\ InFlight(i)
    /\ settled[i].status = "pending"
    /\ TotalErrors < MaxErrors
    /\ settled' = [settled EXCEPT ![i] = [status |-> "rejected", reason |-> err]]
    /\ UNCHANGED <<target, elemId, idCounter, pc, outElem, children>>

\* pyExec from the point its await resumes to its return: the catch block,
\* the finally block and the return or the propagated error.
pyExecResume(i) ==
    /\ InFlight(i)
    /\ settled[i].status # "pending"
    /\ IF settled[i].status = "fulfilled"
       THEN /\ target' = TargetAfterRun(FALSE)
            /\ pc' = [pc EXCEPT ![i] = "returned"]
            /\ UNCHANGED children
       ELSE LET d == displayPyException(settled[i].reason, children[outElem[i]])
            IN  /\ children' = [children EXCEPT ![outElem[i]] = d.kids]
                /\ target' = TargetAfterRun(d.threw)
                /\ pc' = [pc EXCEPT ![i] = IF d.threw THEN "threw" ELSE "returned"]
    /\ UNCHANGED <<elemId, idCounter, outElem, settled>>

ExecInit ==
    /\ target = Undefined
    /\ elemId = [e \in Elements |-> IF e = "e1" THEN "out1" ELSE ""]
    /\ idCounter = 0
    /\ pc = [i \in Invocations |-> "idle"]
    /\ outElem = [i \in Invocations |-> NoElem]
    /\ settled = [i \in Invocations |-> [status |-> "pending"]]
    /\ children = [e \in Elements |-> <<>>]

-----------------------------------------------------------------------------
(* pyconfig.ts: keys, objects and the default configuration *)

KeyTypes == {"string", "number", "boolean", "array"}

allKeys ==
    [string |-> {"name", "description", "version", "type", "author_name",
                 "author_email", "license"},
     number |-> {"schema_version"},
     boolean |-> {"autoclose_loader"},
     array |-> {"runtimes", "packages", "paths", "plugins"}]

SchemaKeys == UNION {allKeys[t] : t \in KeyTypes}
KeyTypeOf(k) == CHOOSE t \in KeyTypes : k \in allKeys[t]

\* Names every plain object inherits from Object.prototype (constructor
\* stands for toString, valueOf, hasOwnProperty, __proto__, ...).
ObjectPrototypeKeys == {"constructor"}

\* Keys outside the fixed schema that a config document may carry; pyscript
\* is also the key loadConfigFromElement stamps.
UserKeys == {"extra", "pyscript"} \cup ObjectPrototypeKeys
Keys == SchemaKeys \cup UserKeys

RuntimeKeys == {"src", "name", "lang"}

EmptyObject == [k \in Keys |-> Absent]
\* k is an own property of obj: what for..in and Object.keys enumerate
Has(k, obj) == obj[k] # Absent
\* k in obj: own properties and those inherited from Object.prototype
In(k, obj) == k \in ObjectPrototypeKeys \/ Has(k, obj)
\* obj[k]
Get(obj, k) ==
    IF Has(k, obj) THEN obj[k]
    ELSE IF k \in ObjectPrototypeKeys THEN [function |-> k]
    ELSE Undefined
\* Object.keys(obj).length === 0
IsEmpty(obj) == \A k \in Keys : ~Has(k, obj)

Runtime(src, name, lang) == [runtime |-> [src |-> src, name |-> name, lang |-> lang]]

DefaultConfigInit ==
    [k \in Keys |->
        CASE k = "schema_version" -> Num(1)
          [] k = "type" -> Str("app")
          [] k = "autoclose_loader" -> Bool(TRUE)
          [] k = "runtimes" ->
                Arr(<<Runtime(Str("https://cdn.jsdelivr.net/pyodide/v0.21.3/full/pyodide.js"),
                              Str("pyodide-0.21.3"), Str("python"))>>)
          [] k \in {"packages", "paths", "plugins"} -> Arr(<<>>)
          [] OTHER -> Absent]

\* References: the module-level constant, and the objects one call allocates,
\* named by the place that allocates them and by how many results were kept
\* when the call ran (so that no two live objects share a reference).
DefaultRef == [site |-> "defaultConfig", gen |-> 0]
Fresh(site) == [site |-> site, gen |-> Len(kept)]
defaultConfig == [ref |-> DefaultRef, obj |-> heap[DefaultRef]]

\* version, imported from runtime.ts
version == "2022.09.1"
PyScriptMetadata(t) == [metadata |-> [version |-> version, time |-> t]]

-----------------------------------------------------------------------------
(* pyconfig.ts: parsing and validation *)

\* A config text is known by its syntax (valid TOML, a valid JSON object, or
\* neither), by whether its first non-blank character is '{', and by the
\* object a successful parse yields.
Toml(obj) == [syntax |-> "toml", brace |-> FALSE, obj |-> obj]
Json(obj) == [syntax |-> "json", brace |-> TRUE, obj |-> obj]
Garbage(brace) == [syntax |-> "garbage", brace |-> brace, obj |-> EmptyObject]
\* el.innerHTML === ''
EmptyText == [syntax |-> "empty", brace |-> FALSE, obj |-> EmptyObject]
\* the element has no src attribute
NoSrc == [syntax |-> "none", brace |-> FALSE, obj |-> EmptyObject]

NoError == "none"

\* parseConfig(configText, configType): whether it threw, what it threw, the
\* messages it passed to showError, and the value it returned.
parseConfig(configText, configType) ==
    IF configType = "toml" THEN
        IF configText.brace
        THEN [threw |-> TRUE, error |-> "SyntaxError",
              shown |-> <<"invalid TOML", "invalid TOML">>, value |-> Undefined]
        ELSE IF configText.syntax = "toml"
        THEN [threw |-> FALSE, error |-> NoError, shown |-> <<>>,
              value |-> [object |-> configText.obj]]
        ELSE [threw |-> TRUE, error |-> "SyntaxError",
              shown |-> <<"invalid TOML">>, value |-> Undefined]
    ELSE IF configType = "json" THEN
        IF configText.syntax = "json"
        THEN [threw |-> FALSE, error |-> NoError, shown |-> <<>>,
              value |-> [object |-> configText.obj]]
        ELSE [threw |-> TRUE, error |-> "JSON.parse error",
              shown |-> <<"invalid JSON">>, value |-> Undefined]
    ELSE [threw |-> FALSE, error |-> NoError,
          shown |-> <<"unsupported type">>, value |-> Undefined]

\* validateParamInConfig(paramName, paramType, config), config an object
validateParamInConfig(paramName, paramType, config) ==
    IF In(paramName, config)
    THEN IF paramType = "array"
         THEN IsArray(Get(config, paramName))
         ELSE TypeOf(Get(config, paramName)) = paramType
    ELSE FALSE

\* The runtimeConfig built from one entry of config.runtimes.
validateRuntime(eachRuntime) ==
    [runtime |->
        [p \in RuntimeKeys |->
            IF validateParamInConfig(p, "string", eachRuntime.runtime)
            THEN eachRuntime.runtime[p]
            ELSE Absent]]

RECURSIVE validateRuntimes(_)
validateRuntimes(runtimes) ==
    IF runtimes = <<>> THEN <<>>
    ELSE <<validateRuntime(Head(runtimes))>> \o validateRuntimes(Tail(runtimes))

\* fillUserData(inputConfig, resultConfig), reading the module's
\* defaultConfig object d as it is when the call runs.
fillUserData(inputConfig, resultConfig, d) ==
    [k \in Keys |->
        IF Has(k, inputConfig) /\ ~In(k, d)
        THEN inputConfig[k]
        ELSE resultConfig[k]]

\* finalConfig after the loop over allKeys of validateConfig
finalConfig(config) ==
    [k \in Keys |->
        IF k \in SchemaKeys /\ validateParamInConfig(k, KeyTypeOf(k), config)
        THEN IF k = "runtimes"
             THEN Arr(validateRuntimes(config[k].array))
             ELSE config[k]
        ELSE Absent]

\* validateConfig(configText, configType): validateParamInConfig applies
\* `in` to what parseConfig returned, which throws a TypeError on undefined.
validateConfig(configText, configType, site) ==
    LET p == parseConfig(configText, configType) IN
    IF p.threw
    THEN [threw |-> TRUE, error |-> p.error, shown |-> p.shown,
          config |-> [ref |-> Fresh(site), obj |-> EmptyObject]]
    ELSE IF p.value = Undefined
    THEN [threw |-> TRUE, error |-> "TypeError", shown |-> p.shown,
          config |-> [ref |-> Fresh(site), obj |-> EmptyObject]]
    ELSE [threw |-> FALSE, error |-> NoError, shown |-> p.shown,
          config |-> [ref |-> Fresh(site),
                      obj |-> fillUserData(p.value.object,
                                           finalConfig(p.value.object),
                                           defaultConfig.obj)]]

\* An object literal {} evaluated at `site`.
EmptyLiteral(site) ==
    [threw |-> FALSE, error |-> NoError, shown |-> <<>>,
     config |-> [ref |-> Fresh(site), obj |-> EmptyObject]]

\* getAttribute(el, 'type') || 'toml'
configTypeOf(el) == IF el.type = "" THEN "toml" ELSE el.type

extractFromSrc(el, configType) ==
    IF el.src # NoSrc
    THEN validateConfig(el.src, configType, "srcValidated")
    ELSE EmptyLiteral("srcLiteral")

extractFromInline(el, configType) ==
    IF el.innerHTML # EmptyText
    THEN validateConfig(el.innerHTML, configType, "inlineValidated")
    ELSE EmptyLiteral("inlineLiteral")

-----------------------------------------------------------------------------
(* pyconfig.ts: merging *)

mergeValueOr(keyType, a, b) == Or(a, b)
mergeValuePrimaryOnly(keyType, a, b) == a
\* merged[item], from inlineConfig[item] and externalConfig[item]
mergeValue(keyType, a, b) ==
    IF keyType = "boolean"
    THEN IF TypeOf(a) # "undefined" THEN a ELSE b
    ELSE Or(a, b)

\* merged after the loop over allKeys of mergeConfig
mergedSchema(inlineObj, externalObj) ==
    [k \in Keys |->
        IF k \in SchemaKeys
        THEN mergeValue(KeyTypeOf(k), Get(inlineObj, k), Get(externalObj, k))
        ELSE Absent]

\* merged = fillUserData(externalConfig, merged);
\* merged = fillUserData(inlineConfig, merged);
fillExtras(inlineObj, externalObj, merged) ==
    fillUserData(inlineObj, fillUserData(externalObj, merged, defaultConfig.obj),
                 defaultConfig.obj)

\* mergeConfig(inlineConfig, externalConfig): the reference it returns and
\* the object behind it; `site` names the object a full merge allocates.
mergeConfig(inlineConfig, externalConfig, site) ==
    IF IsEmpty(inlineConfig.obj) /\ IsEmpty(externalConfig.obj) THEN defaultConfig
    ELSE IF IsEmpty(inlineConfig.obj) THEN externalConfig
    ELSE IF IsEmpty(externalConfig.obj) THEN inlineConfig
    ELSE [ref |-> Fresh(site),
          obj |-> fillExtras(inlineConfig.obj, externalConfig.obj,
                             mergedSchema(inlineConfig.obj, externalConfig.obj))]

-----------------------------------------------------------------------------
(* pyconfig.ts: loadConfigFromElement *)

NullElement == [null |-> TRUE]
NoConfig == [ref |-> DefaultRef, obj |-> EmptyObject]

NoCall ==
    [el |-> NullElement, outcome |-> "none", error |-> NoError, shown |-> <<>>,
     default |-> EmptyObject,
     srcConfig |-> NoConfig, inlineConfig |-> NoConfig,
     srcMerged |-> NoConfig, merged |-> NoConfig]

\* The object result.pyscript = {...} is assigned on.
Stamped(result, t) == [result.obj EXCEPT !["pyscript"] = PyScriptMetadata(t)]

\* loadConfigFromElement(el): the record of the call.  srcConfig and
\* inlineConfig are the validated configs, srcMerged is srcConfig after
\* line 70, merged is the object line 71 yields, before it is stamped, and
\* default is the defaultConfig object as the call found it.
loadConfigFromElement(el) ==
    LET configType == IF el = NullElement THEN "toml" ELSE configTypeOf(el)
        s == IF el = NullElement THEN EmptyLiteral("srcLiteral")
             ELSE extractFromSrc(el, configType)
        i == IF el = NullElement THEN EmptyLiteral("inlineLiteral")
             ELSE extractFromInline(el, configType)
        srcMerged == mergeConfig(s.config, defaultConfig, "srcMerged")
        merged == mergeConfig(i.config, srcMerged, "resultMerged")
    IN  IF s.threw
        THEN [NoCall EXCEPT !.el = el, !.outcome = "threw", !.error = s.error,
                            !.shown = s.shown]
        ELSE IF i.threw
        THEN [NoCall EXCEPT !.el = el, !.outcome = "threw", !.error = i.error,
                            !.shown = s.shown \o i.shown,
                            !.srcConfig = s.config]
        ELSE [el |-> el, outcome |-> "returned", error |-> NoError,
              shown |-> s.shown \o i.shown,
              default |-> defaultConfig.obj,
              srcConfig |-> s.config, inlineConfig |-> i.config,
              srcMerged |-> srcMerged, merged |-> merged]

\* The host calls loadConfigFromElement(el).
LoadConfig(el) ==
    /\ cfgpc = "ready"
    /\ LET c == loadConfigFromElement(el) IN
        /\ call' = c
        /\ heap' = IF c.outcome = "returned"
                   THEN (c.merged.ref :> Stamped(c.merged, now)) @@ heap
                   ELSE heap
    /\ cfgpc' = "loaded"
    /\ UNCHANGED <<now, kept>>

LiveRefs(held) == {DefaultRef} \cup {held[n].ref : n \in 1..Len(held)}

\* The host drops the result (or the error) of the last call.
Discard ==
    /\ cfgpc = "loaded"
    /\ cfgpc' = "ready"
    /\ call' = NoCall
    /\ heap' = [r \in LiveRefs(kept) |-> heap[r]]
    /\ UNCHANGED <<now, kept>>

MaxKept == 2

\* The host keeps the AppConfig the last call returned.
Keep ==
    /\ cfgpc = "loaded"
    /\ call.outcome = "returned"
    /\ Len(kept) < MaxKept
    /\ kept' = Append(kept, [ref |-> call.merged.ref,
                             snapshot |-> heap[call.merged.ref]])
    /\ cfgpc' = "ready"
    /\ call' = NoCall
    /\ heap' = [r \in LiveRefs(kept') |-> heap[r]]
    /\ UNCHANGED now

MaxTime == 1

\* Time passes between two calls.
Tick ==
    /\ cfgpc = "ready"
    /\ now < MaxTime
    /\ now' = now + 1
    /\ UNCHANGED <<heap, cfgpc, call, kept>>

CfgInit ==
    /\ heap = (DefaultRef :> DefaultConfigInit)
    /\ now = 0
    /\ cfgpc = "ready"
    /\ call = NoCall
    /\ kept = <<>>

\* The AppConfig the last call returned, as the heap holds it.
Resolved == heap[call.merged.ref]
Returned == cfgpc = "loaded" /\ call.outcome = "returned"

-----------------------------------------------------------------------------
(* The config documents and elements the host page presents *)

Obj1(k, v) == [EmptyObject EXCEPT ![k] = v]
Obj2(k1, v1, k2, v2) == [EmptyObject EXCEPT ![k1] = v1, ![k2] = v2]

DocValues(k) ==
    CASE k = "name" -> {Str("demo"), Str(""), Num(5)}
      [] k \in {"description", "version", "author_name", "author_email", "license"} ->
            {Str("x"), Num(5)}
      [] k = "type" -> {Str("lib"), Str(""), Num(5)}
      [] k = "schema_version" -> {Num(0), Num(2), Str("1")}
      [] k = "autoclose_loader" -> {Bool(TRUE), Bool(FALSE), Str("no")}
      [] k = "runtimes" ->
            {Arr(<<>>), Arr(<<Runtime(Str("u"), Num(5), Absent)>>), Str("pyodide")}
      [] k = "packages" -> {Arr(<<>>), Arr(<<Str("numpy")>>), Str("numpy")}
      [] k \in {"paths", "plugins"} -> {Arr(<<Str("p")>>), Num(5)}
      [] k = "extra" -> {Str("e1"), Str("e2")}
      [] k = "pyscript" -> {Str("mine")}
      [] k = "constructor" -> {Str("c")}

TomlObjects ==
    {EmptyObject}
    \cup UNION {{Obj1(k, v) : v \in DocValues(k)} : k \in Keys}
    \cup {Obj2("name", Str("demo"), "packages", Arr(<<Str("numpy")>>)),
          Obj2("autoclose_loader", Bool(FALSE), "extra", Str("e1")),
          Obj2("extra", Str("e2"), "pyscript", Str("mine"))}

JsonObjects ==
    {EmptyObject,
     Obj1("name", Null),
     Obj1("name", Num(5)),
     Obj1("schema_version", Num(0)),
     Obj1("autoclose_loader", Bool(FALSE)),
     Obj1("extra", Str("e1")),
     Obj2("name", Str("demo"), "packages", Arr(<<Str("numpy")>>))}

TomlTexts == {Toml(o) : o \in TomlObjects}

\* Texts that are not TOML, and a few that are, for the elements that
\* declare a type.
MixedTexts ==
    {Json(o) : o \in JsonObjects} \cup {Garbage(b) : b \in BOOLEAN}
    \cup {Toml(EmptyObject), Toml(Obj1("name", Str("demo"))),
          Toml(Obj1("autoclose_loader", Bool(FALSE)))}

TypeAttributes == {"", "toml", "json", "yaml"}

ConfigElements ==
    {NullElement}
    \cup [type : {""}, src : TomlTexts \cup {NoSrc},
          innerHTML : TomlTexts \cup {EmptyText}]
    \cup [type : TypeAttributes, src : MixedTexts \cup {NoSrc},
          innerHTML : MixedTexts \cup {EmptyText}]

SmallTexts ==
    {Toml(EmptyObject), Toml(Obj1("name", Str("demo"))),
     Toml(Obj1("extra", Str("e1")))}

SmallElements ==
    {NullElement}
    \cup [type : {""}, src : SmallTexts \cup {NoSrc},
          innerHTML : SmallTexts \cup {EmptyText}]

-----------------------------------------------------------------------------
(* Specifications *)

Init == ExecInit /\ CfgInit

\* Config loading, the host dropping each result before the next call.
Next ==
    \/ (\E el \in ConfigElements : LoadConfig(el)) /\ UNCHANGED execVars
    \/ Discard /\ UNCHANGED execVars
    \/ Tick /\ UNCHANGED execVars

Spec == Init /\ [][Next]_vars

\* Config loading, the host keeping the results.
NextKeep ==
    \/ (\E el \in SmallElements : LoadConfig(el)) /\ UNCHANGED execVars
    \/ Keep /\ UNCHANGED execVars
    \/ Discard /\ UNCHANGED execVars
    \/ Tick /\ UNCHANGED execVars

SpecKeep == Init /\ [][NextKeep]_vars

\* Script execution: two callers of pyExec.
NextExec ==
    \/ (\E i \in Invocations, e \in Elements : pyExecStart(i, e)) /\ UNCHANGED cfgVars
    \/ (\E i \in Invocations : RunFulfils(i)) /\ UNCHANGED cfgVars
    \/ (\E i \in Invocations, err \in RunFailures : RunRejects(i, err)) /\ UNCHANGED cfgVars
    \/ (\E i \in Invocations : pyExecResume(i)) /\ UNCHANGED cfgVars

SpecExec == Init /\ [][NextExec]_vars

-----------------------------------------------------------------------------
(* Claims about pyExec, checked under SpecExec *)

Started(i) == pc[i] # "awaiting" /\ pc'[i] = "awaiting"
Finished(i) == pc[i] = "awaiting" /\ pc'[i] # "awaiting"

\* C1: every pyExec invocation sets the display target to its element's
\* (non-empty) id before run starts, and sets it back to none before it
\* returns or fails, whatever run did; so the target is none whenever no
\* invocation is in progress.
C1_TargetSetThenCleared ==
    [][ /\ \A i \in Invocations :
             Started(i) => /\ elemId'[outElem'[i]] # ""
                           /\ target' = Str(elemId'[outElem'[i]])
        /\ \A i \in Invocations : Finished(i) => target' = Undefined
        /\ (\A i \in Invocations : ~InFlight(i)') => target' = Undefined
      ]_vars

\* An invocation whose run failed with a value that displayPyException
\* cannot read (null) has ended, and the target is none again.
C1_Witness ==
    \E i \in Invocations :
        /\ pc[i] = "threw"
        /\ settled[i] = [status |-> "rejected", reason |-> Null]
        /\ target = Undefined
        /\ \A j \in Invocations : ~InFlight(j)

\* The <pre class="py-error"> block the claim expects for a failure of run.
ExpectedPre(err) ==
    Pre(IF IsErrorObject(err) /\ err.error = "PythonError"
        THEN err.message
        ELSE ToStr(err))

\* C2: pyExec never propagates a failure of run: for every value run can
\* fail with, pyExec returns normally and exactly one <pre class="py-error">
\* block holding the error text has been appended to the output element.
C2_NeverThrows ==
    [][ \A i \in Invocations :
          (Finished(i) /\ settled[i].status = "rejected") =>
              /\ pc'[i] = "returned"
              /\ children' = [children EXCEPT ![outElem[i]] =
                     Append(children[outElem[i]], ExpectedPre(settled[i].reason))]
      ]_vars

\* C10: pyExec applies no mutual exclusion to the display-target slot:
\* while one invocation's run is in flight, any other invocation can start
\* on any element (and, by C1, takes the slot over).
C10_NoMutualExclusion ==
    \A i, j \in Invocations :
        (i # j /\ InFlight(i) /\ ~InFlight(j)) =>
            \A e \in Elements : ENABLED pyExecStart(j, e)

\* One invocation's run is still pending while the display target is the
\* id of the other invocation's (different) element.
C10_Witness ==
    \E i, j \in Invocations :
        /\ i # j
        /\ InFlight(i) /\ settled[i].status = "pending"
        /\ InFlight(j)
        /\ outElem[i] # outElem[j]
        /\ target = Str(elemId[outElem[j]])
        /\ target # Str(elemId[outElem[i]])

-----------------------------------------------------------------------------
(* Claims about config loading, checked under Spec and SpecKeep *)

\* The objects the external (src) and the inline text of the element parse to.
ExternalDoc == IF call.el = NullElement THEN EmptyObject ELSE call.el.src.obj
InlineDoc == IF call.el = NullElement THEN EmptyObject ELSE call.el.innerHTML.obj

\* The two mergeConfig calls of the last loadConfigFromElement call.
MergeCalls ==
    {[primary |-> call.srcConfig.obj, secondary |-> call.default,
      result |-> call.srcMerged.obj],
     [primary |-> call.inlineConfig.obj, secondary |-> call.srcMerged.obj,
      result |-> call.merged.obj]}

FullMerge(m) == ~IsEmpty(m.primary) /\ ~IsEmpty(m.secondary)

HasDeclaredType(v, keyType) ==
    IF keyType = "array" THEN IsArray(v) ELSE TypeOf(v) = keyType

DefaultKeys == {k \in SchemaKeys : Has(k, DefaultConfigInit)}

\* C3: an explicit false of a boolean key survives merging: mergeConfig with
\* primary[key] === false yields false, and loadConfigFromElement resolves
\* autoclose_loader to false when the inline config sets it to false, or the
\* external config does and the inline config does not set it to true.
C3_FalseSurvives ==
    Returned =>
        \A k \in allKeys["boolean"] :
            /\ \A m \in MergeCalls :
                   m.primary[k] = Bool(FALSE) => m.result[k] = Bool(FALSE)
            /\ (\/ InlineDoc[k] = Bool(FALSE)
                \/ ExternalDoc[k] = Bool(FALSE) /\ InlineDoc[k] # Bool(TRUE))
                   => Resolved[k] = Bool(FALSE)

\* The external config sets autoclose_loader = false, it was merged over the
\* default's true and under a non-empty inline config, and false came out.
C3_Witness ==
    /\ Returned
    /\ ExternalDoc["autoclose_loader"] = Bool(FALSE)
    /\ call.default["autoclose_loader"] = Bool(TRUE)
    /\ ~IsEmpty(call.inlineConfig.obj)
    /\ call.srcMerged.ref # DefaultRef
    /\ Resolved["autoclose_loader"] = Bool(FALSE)

\* C4: when both inputs of mergeConfig are non-empty, the merged value of
\* every schema key is primary[key] whenever that is defined, whatever its
\* value, and secondary[key] only when primary[key] is undefined.
C4_PrimaryWinsWhenDefined ==
    Returned =>
        \A m \in MergeCalls :
            FullMerge(m) =>
                \A k \in SchemaKeys :
                    m.result[k] = IF Get(m.primary, k) # Undefined
                                  THEN m.primary[k]
                                  ELSE Get(m.secondary, k)

\* C5: the object validateConfig returns holds a schema key only if the
\* parsed input holds it with a value of the declared type.
C5_OnlyTypeCorrectKeys ==
    Returned =>
        \A k \in SchemaKeys :
            /\ Has(k, call.srcConfig.obj) =>
                   Has(k, ExternalDoc) /\ HasDeclaredType(ExternalDoc[k], KeyTypeOf(k))
            /\ Has(k, call.inlineConfig.obj) =>
                   Has(k, InlineDoc) /\ HasDeclaredType(InlineDoc[k], KeyTypeOf(k))

\* C6: with a declared format that is neither toml nor json, and an inline
\* text or a src, config loading shows an error and returns normally.
C6_UnsupportedFormatReturns ==
    (/\ cfgpc = "loaded"
     /\ call.el # NullElement
     /\ configTypeOf(call.el) \notin {"toml", "json"}
     /\ (call.el.src # NoSrc \/ call.el.innerHTML # EmptyText))
        => /\ call.outcome = "returned"
           /\ \E n \in 1..Len(call.shown) : call.shown[n] = "unsupported type"

\* C7: after any sequence of loadConfigFromElement calls the default
\* configuration has its initial contents, every AppConfig an earlier call
\* returned is as it was returned, and the object a call stamps is neither
\* the default constant nor an earlier result.
C7_DefaultAndResultsUntouched ==
    /\ heap[DefaultRef] = DefaultConfigInit
    /\ \A n \in 1..Len(kept) : heap[kept[n].ref] = kept[n].snapshot
    /\ Returned =>
           /\ call.merged.ref # DefaultRef
           /\ \A n \in 1..Len(kept) : kept[n].ref # call.merged.ref

\* C8: for every key outside the fixed schema, a key both the inline and
\* the external config hold resolves to the inline value, and a key only one
\* of them holds is carried through with that one's value; in the resolved
\* config and in the result of each mergeConfig call.
C8_InlineWinsOnUserKeys ==
    Returned =>
        \A k \in Keys \ SchemaKeys :
            /\ Has(k, InlineDoc) => Resolved[k] = InlineDoc[k]
            /\ (~Has(k, InlineDoc) /\ Has(k, ExternalDoc)) => Resolved[k] = ExternalDoc[k]
            /\ \A m \in MergeCalls :
                /\ Has(k, m.primary) => m.result[k] = m.primary[k]
                /\ (~Has(k, m.primary) /\ Has(k, m.secondary)) =>
                       m.result[k] = m.secondary[k]

\* C8 for the keys that are neither inherited from Object.prototype nor
\* the stamped pyscript.
C8_HoldsOnOtherKeys ==
    Returned =>
        \A k \in (Keys \ SchemaKeys) \ (ObjectPrototypeKeys \cup {"pyscript"}) :
            /\ Has(k, InlineDoc) => Resolved[k] = InlineDoc[k]
            /\ (~Has(k, InlineDoc) /\ Has(k, ExternalDoc)) => Resolved[k] = ExternalDoc[k]

\* C8 for the keys inherited from Object.prototype alone.
C8_OnInheritedNames ==
    Returned =>
        \A k \in ObjectPrototypeKeys :
            /\ Has(k, InlineDoc) => Resolved[k] = InlineDoc[k]
            /\ (~Has(k, InlineDoc) /\ Has(k, ExternalDoc)) => Resolved[k] = ExternalDoc[k]

\* C9: whenever loadConfigFromElement returns, every key the default
\* configuration has a value for is present in the resolved config with a
\* defined value, the default's when neither config supplies the key.
C9_DefaultKeysPresent ==
    Returned =>
        \A k \in DefaultKeys :
            /\ Has(k, Resolved)
            /\ Resolved[k] \notin {Undefined, Null}
            /\ (~Has(k, InlineDoc) /\ ~Has(k, ExternalDoc)) =>
                   Resolved[k] = DefaultConfigInit[k]

\* Both configs are non-empty, neither supplies type, and the resolved
\* config has the default's.
C9_Witness ==
    /\ Returned
    /\ ~IsEmpty(call.inlineConfig.obj) /\ ~IsEmpty(call.srcConfig.obj)
    /\ ~Has("type", InlineDoc) /\ ~Has("type", ExternalDoc)
    /\ Resolved["type"] = Str("app")

====
